---------------------------- MODULE Spec2Model ----------------------------
(***************************************************************************)
(* Shadow/layover orchestration of frx08/isce2:                            *)
(*   src/development/calculate_shadow_layover.py                           *)
(*       _create_sensor, _ensure_dem, _union_bbox,                         *)
(*       generate_scene_shadow_masks                                       *)
(*   src/development/calcShadowLayover.py                                  *)
(*       _load_dem, _burst_slice, _run_topo_task,                          *)
(*       _prepare_geometry_tasks, generate_shadow_layover                  *)
(*                                                                         *)
(* One behaviour is one call of one function of these modules (the         *)
(* variable entry names it).  Every action is one step of the Python code. *)
(* The sensor readers, the DEM stitcher, the file system and the           *)
(* terrain-intersection engine are external: what they answer is chosen    *)
(* nondeterministically at the step that asks them.                        *)
(*                                                                         *)
(* Representations.  A Python str that the code inspects (upper(),         *)
(* membership in a set of names) is a sequence of one-character strings.   *)
(* A path is a sequence of components and a component a sequence of        *)
(* fragments, a final ".xml" or ".rdr" fragment standing for the suffix.   *)
(* None is the empty sequence, and Some(x) a value that may be None.  A    *)
(* geographic coordinate is a fixed-point number, Scale units per degree.  *)
(***************************************************************************)
EXTENDS Integers, Sequences, FiniteSets, TLC

---------------------------------------------------------------------------
(* Bounds of the model *)

\* most bursts a product of the generate_shadow_layover harness holds
MaxBursts == 3

\* most bursts one swath of a scene holds
MaxSceneBursts == 2

\* longest list of requested swaths
MaxSwaths == 2

\* whole degrees (either sign) of the boxes handed to _ensure_dem
MaxDeg == 1

\* largest coordinate of the boxes handed to _union_bbox
MaxUnionCoord == 1

---------------------------------------------------------------------------
(* Python values *)

None == <<>>

Some(x) == <<x>>

LowerCase ==
    <<"a", "b", "c", "d", "e", "f", "g", "h", "i", "j", "k", "l", "m",
      "n", "o", "p", "q", "r", "s", "t", "u", "v", "w", "x", "y", "z">>

UpperCase ==
    <<"A", "B", "C", "D", "E", "F", "G", "H", "I", "J", "K", "L", "M",
      "N", "O", "P", "Q", "R", "S", "T", "U", "V", "W", "X", "Y", "Z">>

UpperChar(c) ==
    IF \E i \in DOMAIN LowerCase : LowerCase[i] = c
    THEN UpperCase[CHOOSE i \in DOMAIN LowerCase : LowerCase[i] = c]
    ELSE c

UpperNoOp(s) == s

\* str.upper()
Upper(s) == [i \in DOMAIN s |-> UpperChar(s[i])]

DigitChar == <<"0", "1", "2", "3", "4", "5", "6", "7", "8", "9">>

RECURSIVE DecimalDigits(_)
\* the decimal digits of n >= 0, most significant first
DecimalDigits(n) ==
    IF n < 10 THEN <<DigitChar[n + 1]>>
    ELSE Append(DecimalDigits(n \div 10), DigitChar[(n % 10) + 1])

\* str(n), as in f"{n}"
Str(n) == IF n < 0 THEN <<"-">> \o DecimalDigits(-n) ELSE DecimalDigits(n)

RECURSIVE ZeroPad(_, _)
ZeroPad(s, width) == IF Len(s) >= width THEN s ELSE ZeroPad(<<"0">> \o s, width)

\* f"{n:02d}": the sign counts in the width and comes before the zeros
Format02d(n) ==
    IF n < 0 THEN <<"-">> \o ZeroPad(DecimalDigits(-n), 1)
    ELSE ZeroPad(DecimalDigits(n), 2)

\* seq[lo:hi] for hi >= 0: 0-based, hi exclusive, clamped to the ends, a negative
\* lo counted from the end
PySlice(seq, lo, hi) ==
    LET l == IF lo >= 0 THEN lo ELSE IF lo + Len(seq) >= 0 THEN lo + Len(seq) ELSE 0
        h == IF hi > Len(seq) THEN Len(seq) ELSE hi
    IN  IF l >= h THEN <<>> ELSE SubSeq(seq, l + 1, h)

RECURSIVE PyMin(_)
\* min(iterable): the first of the smallest
PyMin(s) ==
    IF Len(s) = 1 THEN s[1]
    ELSE LET m == PyMin(SubSeq(s, 1, Len(s) - 1))
         IN  IF s[Len(s)] < m THEN s[Len(s)] ELSE m

RECURSIVE PyMax(_)
\* max(iterable): the first of the largest
PyMax(s) ==
    IF Len(s) = 1 THEN s[1]
    ELSE LET m == PyMax(SubSeq(s, 1, Len(s) - 1))
         IN  IF s[Len(s)] > m THEN s[Len(s)] ELSE m

Column(boxes, k) == [i \in DOMAIN boxes |-> boxes[i][k]]

---------------------------------------------------------------------------
(* Paths and the file system *)

\* os.path.join(dir, name): name is one more component
Join(dir, name) == Append(dir, name)

\* os.path.abspath
Abspath(p) == IF p[1] = <<"/">> THEN p ELSE << <<"/">>, <<"cwd">> >> \o p

EndsWithXml(p) == LET c == p[Len(p)] IN c[Len(c)] = ".xml"

\* dem_path if dem_path.endswith(".xml") else dem_path + ".xml"
XmlPath(p) == IF EndsWithXml(p) THEN p ELSE [p EXCEPT ![Len(p)] = Append(@, ".xml")]

\* the descriptors on disk before the call
InitialFiles ==
    { << <<"/">>, <<"dem_ok", ".xml">> >>,
      << <<"/">>, <<"cwd">>, <<"rel_ok", ".xml">> >> }

IsFileAlways(fs, p) == TRUE

\* os.path.isfile
IsFile(fs, p) == Abspath(p) \in fs

DemAbsOk == << <<"/">>, <<"dem_ok">> >>

DemAbsOkXml == << <<"/">>, <<"dem_ok", ".xml">> >>

DemRelOk == << <<"rel_ok">> >>

DemMissing == << <<"/">>, <<"dem_missing">> >>

OutputDir == << <<"/">>, <<"out">> >>

DemDirectory == << <<"/">>, <<"demdir">> >>

ProductPath == << <<"/">>, <<"product", ".zip">> >>

---------------------------------------------------------------------------
(* Bounding boxes *)

\* fixed-point units per degree: 0.9999 is 99990 units
Scale == 100000

Frac9999 == 99990

\* int(x) of a float: truncation toward zero
PyInt(x) == IF x >= 0 THEN x \div Scale ELSE -((-x) \div Scale)

UnionBboxFirstWest(bboxes) ==
    << PyMin(Column(bboxes, 1)), PyMax(Column(bboxes, 2)),
       bboxes[1][3], PyMax(Column(bboxes, 4)) >>

UnionBbox(bboxes) ==
    << PyMin(Column(bboxes, 1)), PyMax(Column(bboxes, 2)),
       PyMin(Column(bboxes, 3)), PyMax(Column(bboxes, 4)) >>

\* bbox_int of _ensure_dem, in whole degrees
BboxInt(b) ==
    << PyInt(b[1]), PyInt(b[2] + Frac9999), PyInt(b[3]), PyInt(b[4] + Frac9999) >>

---------------------------------------------------------------------------
(* Names the code compares against *)

STR_SINC == <<"S", "I", "N", "C">>

STR_BILINEAR == <<"B", "I", "L", "I", "N", "E", "A", "R">>

STR_BICUBIC == <<"B", "I", "C", "U", "B", "I", "C">>

STR_NEAREST == <<"N", "E", "A", "R", "E", "S", "T">>

STR_AKIMA == <<"A", "K", "I", "M", "A">>

STR_BIQUINTIC == <<"B", "I", "Q", "U", "I", "N", "T", "I", "C">>

STR_SENTINEL1 == <<"S", "E", "N", "T", "I", "N", "E", "L", "1">>

STR_COSMO_SKYMED_SLC ==
    <<"C", "O", "S", "M", "O", "_", "S", "K", "Y", "M", "E", "D", "_", "S", "L", "C">>

STR_SAOCOM_SLC == <<"S", "A", "O", "C", "O", "M", "_", "S", "L", "C">>

VALID_DEM_METHODS ==
    { STR_SINC, STR_BILINEAR, STR_BICUBIC, STR_NEAREST, STR_AKIMA, STR_BIQUINTIC }

DEFAULT_SWATHS == <<1, 2, 3>>

\* the keys of the outputs dict of _run_topo_task, in its order
OutputKeys == <<"lat", "lon", "hgt", "los", "inc", "mask">>

\* the file-name prefix of each key
OutputPrefix ==
    [ lat |-> "lat", lon |-> "lon", hgt |-> "hgt", los |-> "los",
      inc |-> "incLocal", mask |-> "shadowMask" ]

---------------------------------------------------------------------------
(* Exceptions *)

E_PRODUCT == "ValueError: product must be provided for Sentinel-1 processing"

E_SENSOR == "ValueError: Unsupported sensor type"

E_PARSE == "reader.parse() raised"

E_UNBOUND == "UnboundLocalError: bboxes referenced before assignment"

E_EMPTYMIN == "ValueError: min() arg is an empty sequence"

E_SIDECAR == "FileNotFoundError: DEM XML sidecar not found"

E_STITCH == "RuntimeError: DEM stitching failed"

E_INTERP == "ValueError: Unsupported DEM interpolation method"

E_DEMXML == "FileNotFoundError: DEM XML not found"

E_RANGE == "ValueError: Invalid burst range"

E_READER == "ValueError: Reader does not expose bursts or frame metadata"

E_NOTASKS == "RuntimeError: No valid geometry tasks were generated"

E_ENGINE == "topo.topo() raised"

---------------------------------------------------------------------------
(* Readers, bursts and geometry tasks *)

\* the burst records of a parsed product: n bursts of swath sw, in order
Bursts(sw, n) == [i \in 1..n |-> [swath |-> sw, number |-> i]]

\* the frame record of a stripmap reader
FrameRecord == [swath |-> 0, number |-> 0]

\* a TOPS reader: reader.product.bursts, no frame
BurstReader(sw, n) ==
    [hasProduct |-> TRUE, bursts |-> Bursts(sw, n), hasFrame |-> FALSE]

\* a stripmap reader: reader.frame, no product
FrameReader == [hasProduct |-> FALSE, bursts |-> <<>>, hasFrame |-> TRUE]

\* f"IW{swath}"
LabelIW(swath) == <<"IW">> \o Str(swath)

LabelFrame == <<"frame">>

DictSetAppend(d, k, v) == Append(d, <<k, v>>)

\* d[k] = v on an insertion-ordered dict, kept as a sequence of <<key, value>>
DictSet(d, k, v) ==
    IF \E i \in DOMAIN d : d[i][1] = k
    THEN [i \in DOMAIN d |-> IF d[i][1] = k THEN <<k, v>> ELSE d[i]]
    ELSE Append(d, <<k, v>>)

BurstSliceNoLowerCheck(bursts, burst_range) ==
    LET start == IF burst_range = None THEN 1 ELSE burst_range[1]
        stop  == IF burst_range = None THEN Len(bursts) ELSE burst_range[2]
    IN  IF burst_range # None /\ (stop < start \/ stop > Len(bursts))
        THEN [error |-> E_RANGE, items |-> <<>>]
        ELSE LET sl == PySlice(bursts, start - 1, stop)
             IN  [error |-> "",
                  items |-> [i \in DOMAIN sl |-> <<start + i - 1, sl[i]>>]]

\* _burst_slice: the <<offset, burst>> pairs it yields, or the error it raises
BurstSlice(bursts, burst_range) ==
    LET start == IF burst_range = None THEN 1 ELSE burst_range[1]
        stop  == IF burst_range = None THEN Len(bursts) ELSE burst_range[2]
    IN  IF burst_range # None /\ (start < 1 \/ stop < start \/ stop > Len(bursts))
        THEN [error |-> E_RANGE, items |-> <<>>]
        ELSE LET sl == PySlice(bursts, start - 1, stop)
             IN  [error |-> "",
                  items |-> [i \in DOMAIN sl |-> <<start + i - 1, sl[i]>>]]

HasBurstsAttrOnly(reader) == reader.hasProduct

\* hasattr(reader, "product") and getattr(reader.product, "bursts", None):
\* an empty burst list is falsy
HasBursts(reader) == reader.hasProduct /\ Len(reader.bursts) > 0

BurstTask(burst_id, burst) ==
    [ label |-> <<"burst_">> \o Format02d(burst_id),
      tag |-> Format02d(burst_id),
      src |-> burst,
      look_side |-> -1 ]

FrameTask ==
    [ label |-> <<"frame">>, tag |-> <<"frame">>, src |-> FrameRecord, look_side |-> 1 ]

\* _prepare_geometry_tasks: the tasks it returns, or the error it raises
PrepareGeometryTasks(reader, burst_range) ==
    IF HasBursts(reader)
    THEN LET sl == BurstSlice(reader.bursts, burst_range)
         IN  [error |-> sl.error,
              tasks |-> [i \in DOMAIN sl.items |->
                            BurstTask(sl.items[i][1], sl.items[i][2])]]
    ELSE IF reader.hasFrame
    THEN [error |-> "", tasks |-> <<FrameTask>>]
    ELSE [error |-> E_READER, tasks |-> <<>>]

\* os.path.join(outdir, f"{prefix}_{tag}.rdr")
OutputPath(outdir, key, tag) ==
    Join(outdir, <<OutputPrefix[key], "_">> \o tag \o <<".rdr">>)

\* the outputs dict of _run_topo_task
Outputs(outdir, tag) ==
    [k \in {OutputKeys[i] : i \in DOMAIN OutputKeys} |-> OutputPath(outdir, k, tag)]

OverallBboxSwapped(bboxes) ==
    << PyMax(Column(bboxes, 1)), PyMax(Column(bboxes, 2)),
       PyMin(Column(bboxes, 3)), PyMax(Column(bboxes, 4)) >>

\* overall_bbox of generate_shadow_layover
OverallBbox(bboxes) ==
    << PyMin(Column(bboxes, 1)), PyMax(Column(bboxes, 2)),
       PyMin(Column(bboxes, 3)), PyMax(Column(bboxes, 4)) >>

NewHandleCached(loads) == 1

\* isceobj.createDemImage(): a new image object each time, named by its ordinal
NewHandle(loads) == Len(loads) + 1

\* stitcher.defaultName(bbox_int): one file name per request
DefaultName(bbox_int) == <<"stitched", ".dem">>

---------------------------------------------------------------------------
(* State *)

VARIABLES
    entry,              \* the function called: "scene", "layover", "ensure_dem", "union"
    pc,                 \* the step the call is at; "done" returned, "failed" raised
    error,              \* the exception raised, "" when none
    \* generate_scene_shadow_masks
    sargs,              \* its arguments
    swath_list,
    swathIdx,           \* position of the loop over swath_list
    readers,            \* dict label -> reader, None while unassigned
    bboxes,             \* Some(list), None while unassigned
    bbox,
    dem_path_resolved,
    burst_range_tuple,
    groupIdx,           \* position of the loop over readers.items()
    results,            \* dict label -> result of generate_shadow_layover
    \* _ensure_dem
    dargs,
    dret,
    \* generate_shadow_layover
    largs,
    method,
    dem_image,          \* the DEM handle _load_dem returned, 0 before
    tasks,
    taskIdx,
    unit_results,
    lret,
    \* the world
    files,              \* the .xml descriptors on disk
    seen,               \* the bursts the product held for each swath parsed so far
    stitchCalls,        \* the stitchDems requests
    demLoads,           \* the DEM handles created (dem_image.load)
    engineCalls,        \* the topo.topo() invocations
    \* _union_bbox called on its own
    uargs,
    uout

sceneVars ==
    << sargs, swath_list, swathIdx, readers, bboxes, bbox, dem_path_resolved,
       burst_range_tuple, groupIdx, results >>

demVars == << dargs, dret >>

layVars == << largs, method, dem_image, tasks, taskIdx, unit_results, lret >>

worldVars == << files, seen, stitchCalls, demLoads, engineCalls >>

unionVars == << uargs, uout >>

vars == << entry, pc, error, sceneVars, demVars, layVars, worldVars, unionVars >>

---------------------------------------------------------------------------
(* Inputs *)

SwathIds == {DEFAULT_SWATHS[i] : i \in DOMAIN DEFAULT_SWATHS}

SwathLists == UNION { [1..n -> SwathIds] : n \in 0..MaxSwaths }

SwathArgs == {None} \cup { Some(l) : l \in SwathLists }

SensorTypes ==
    { <<"S", "e", "n", "t", "i", "n", "e", "l", "1">>,
      STR_COSMO_SKYMED_SLC,
      <<"s", "a", "o", "c", "o", "m", "_", "s", "l", "c">>,
      <<"A", "L", "O", "S">> }

Interps ==
    { <<"b", "i", "q", "u", "i", "n", "t", "i", "c">>,
      <<"B", "i", "Q", "u", "i", "n", "t", "i", "c">>,
      STR_BIQUINTIC,
      <<"s", "i", "n", "c">>,
      <<"N", "e", "a", "r", "e", "s", "t">>,
      <<"a", "K", "i", "M", "a">>,
      <<"B", "i", "l", "i", "n", "e", "a", "r">>,
      <<"b", "i", "c", "u", "b", "i", "c">>,
      <<"L", "A", "N", "C", "Z", "O", "S">>,
      <<"b", "i", "l", "i", "n", "e", "a", "r", " ">>,
      <<>> }

SceneInterps ==
    { <<"b", "i", "q", "u", "i", "n", "t", "i", "c">>,
      <<"L", "A", "N", "C", "Z", "O", "S">> }

BurstRanges(n) == {None} \cup { <<a, b>> : a \in 0..(n + 1), b \in 0..(n + 1) }

BoxA == << 0, Scale, 0, Scale >>

BoxB == << -(Scale \div 2), Scale \div 2, Scale + 1, 2 * Scale >>

\* what reader.product.getBbox() and the engine's extrema may be
SampleBoxes == { BoxA, BoxB }

\* reader.product.getBbox() of the product's swaths: three overlapping strips
ProductBbox(swath) ==
    << swath - Scale, (swath * Scale) \div 2,
       (swath - 2) * Scale, (swath - 1) * Scale + 1 >>

\* how many bursts a swath of the product may hold
SwathBursts == 1..MaxSceneBursts

LayoverReaders ==
    { [hasProduct |-> TRUE, bursts |-> Bursts(1, n), hasFrame |-> f] :
          n \in 0..MaxBursts, f \in BOOLEAN }
    \cup { [hasProduct |-> FALSE, bursts |-> <<>>, hasFrame |-> f] : f \in BOOLEAN }

DemFracs == {0, 1, Scale \div 2}

DemCoords == { d * Scale + f : d \in (-MaxDeg)..MaxDeg, f \in DemFracs }

DemBoxes ==
    { <<s, n, w, e>> : s \in DemCoords, n \in DemCoords, w \in DemCoords, e \in DemCoords }

UnionCoords == 0..MaxUnionCoord

UnionBoxes ==
    { b \in UnionCoords \X UnionCoords \X UnionCoords \X UnionCoords :
          b[1] <= b[2] /\ b[3] <= b[4] }

---------------------------------------------------------------------------
(* Initial states: one per call *)

NoArgs == <<>>

IdleScene ==
    /\ sargs = NoArgs /\ swath_list = <<>> /\ swathIdx = 1
    /\ readers = None /\ bboxes = None /\ bbox = None
    /\ dem_path_resolved = None /\ burst_range_tuple = None
    /\ groupIdx = 1 /\ results = <<>>

IdleDem == dargs = NoArgs /\ dret = None

IdleLayover ==
    /\ largs = NoArgs /\ method = <<>> /\ dem_image = 0
    /\ tasks = <<>> /\ taskIdx = 1 /\ unit_results = <<>> /\ lret = None

IdleWorld ==
    /\ files = InitialFiles /\ seen = {} /\ stitchCalls = <<>>
    /\ demLoads = <<>> /\ engineCalls = <<>>

IdleUnion == uargs = NoArgs /\ uout = <<>>

\* generate_scene_shadow_masks(sensor_type, product, swaths, dem_path,
\*                             burst_range, dem_interp)
Init ==
    /\ entry = "scene" /\ pc = "start" /\ error = ""
    /\ sargs \in [ sensor_type : SensorTypes,
                   product : {None, ProductPath},
                   swaths : SwathArgs,
                   dem_path : {None, DemRelOk, DemMissing},
                   burst_range : BurstRanges(MaxSceneBursts),
                   dem_interp : SceneInterps ]
    \* swaths and a missing product are read by the Sentinel-1 branch alone
    /\ Upper(sargs.sensor_type) # STR_SENTINEL1 =>
           sargs.swaths = None /\ sargs.product # None
    /\ swath_list = <<>> /\ swathIdx = 1
    /\ readers = None /\ bboxes = None /\ bbox = None
    /\ dem_path_resolved = None /\ burst_range_tuple = None
    /\ groupIdx = 1 /\ results = <<>>
    /\ IdleDem /\ IdleLayover /\ IdleWorld /\ IdleUnion

\* generate_shadow_layover(reader, dem_path, output_dir, burst_range, dem_interp)
InitLayover ==
    /\ entry = "layover" /\ pc = "l_validate" /\ error = ""
    /\ largs \in [ reader : LayoverReaders,
                   dem_path : {DemAbsOk, DemAbsOkXml, DemMissing},
                   output_dir : {OutputDir},
                   burst_range : BurstRanges(MaxBursts),
                   dem_interp : Interps ]
    /\ method = <<>> /\ dem_image = 0
    /\ tasks = <<>> /\ taskIdx = 1 /\ unit_results = <<>> /\ lret = None
    /\ IdleScene /\ IdleDem /\ IdleWorld /\ IdleUnion

\* _ensure_dem(bbox_snwe, dem_dir, source, existing_dem)
InitDem ==
    /\ entry = "ensure_dem" /\ pc = "ensure_dem" /\ error = ""
    /\ dargs \in [ bbox_snwe : { b \in DemBoxes : b[1] <= b[2] /\ b[3] <= b[4] },
                   dem_dir : {DemDirectory},
                   existing_dem : {None, DemAbsOk, DemRelOk, DemAbsOkXml, DemMissing} ]
    /\ dret = None
    /\ IdleScene /\ IdleLayover /\ IdleWorld /\ IdleUnion

\* _union_bbox on the lists built from three boxes
InitUnion ==
    /\ entry = "union" /\ pc = "u_call" /\ error = ""
    /\ uargs \in [a : UnionBoxes, b : UnionBoxes, c : UnionBoxes]
    /\ uout = <<>>
    /\ IdleScene /\ IdleDem /\ IdleLayover /\ IdleWorld

---------------------------------------------------------------------------
(* generate_scene_shadow_masks *)

\* raise: the call ends with the exception
Raise(e) == pc' = "failed" /\ error' = e

\* lines 101-128: the dispatch on sensor_type.upper()
SceneStart ==
    /\ entry = "scene" /\ pc = "start"
    /\ LET sensor_type_upper == Upper(sargs.sensor_type)
       IN  IF sensor_type_upper = STR_SENTINEL1
           THEN IF sargs.product = None
                THEN /\ Raise(E_PRODUCT)
                     /\ UNCHANGED << swath_list, readers, bboxes >>
                ELSE /\ swath_list' = IF sargs.swaths # None
                                      THEN sargs.swaths[1] ELSE DEFAULT_SWATHS
                     /\ readers' = <<>>
                     /\ bboxes' = Some(<<>>)
                     /\ pc' = "swath_loop"
                     /\ UNCHANGED error
           ELSE IF sensor_type_upper = STR_SAOCOM_SLC
           \* pass: neither readers nor bboxes is assigned
           THEN /\ pc' = "union"
                /\ UNCHANGED << error, swath_list, readers, bboxes >>
           ELSE /\ pc' = "frame_reader"
                /\ UNCHANGED << error, swath_list, readers, bboxes >>
    /\ UNCHANGED << entry, sargs, swathIdx, bbox, dem_path_resolved,
                    burst_range_tuple, groupIdx, results >>
    /\ UNCHANGED << demVars, layVars, worldVars, unionVars >>

\* lines 130-135: one turn of the loop over swath_list; _create_sensor parses the
\* swath's annotation, which holds the same bursts and box each time it is read
SceneCreateSwathReader ==
    /\ entry = "scene" /\ pc = "swath_loop"
    /\ swathIdx <= Len(swath_list)
    /\ LET swath == swath_list[swathIdx]
       IN  \/ /\ Raise(E_PARSE)
              /\ UNCHANGED << readers, bboxes, swathIdx, seen >>
           \/ \E n \in SwathBursts :
                /\ \A o \in seen : o.swath = swath => o.nBursts = n
                /\ seen' = seen \cup {[swath |-> swath, nBursts |-> n]}
                /\ readers' = DictSet(readers, LabelIW(swath), BurstReader(swath, n))
                /\ bboxes' = Some(Append(bboxes[1], ProductBbox(swath)))
                /\ swathIdx' = swathIdx + 1
                /\ UNCHANGED << pc, error >>
    /\ UNCHANGED << entry, sargs, swath_list, bbox, dem_path_resolved,
                    burst_range_tuple, groupIdx, results >>
    /\ UNCHANGED << demVars, layVars, files, stitchCalls, demLoads, engineCalls,
                    unionVars >>

\* line 130: the loop over swath_list is exhausted
SceneSwathsDone ==
    /\ entry = "scene" /\ pc = "swath_loop"
    /\ swathIdx > Len(swath_list)
    /\ pc' = "union"
    /\ UNCHANGED << entry, error, sceneVars, demVars, layVars, worldVars, unionVars >>

\* lines 137-148 and 164-175: the single reader of a stripmap sensor;
\* createSensor answers None for a sensor it does not know
SceneCreateFrameReader ==
    /\ entry = "scene" /\ pc = "frame_reader"
    /\ \/ /\ Raise(E_SENSOR)
          /\ UNCHANGED << readers, bboxes >>
       \/ /\ Raise(E_PARSE)
          /\ UNCHANGED << readers, bboxes >>
       \/ \E b \in SampleBoxes :
            /\ readers' = << <<LabelFrame, FrameReader>> >>
            /\ bboxes' = Some(<<b>>)
            /\ pc' = "union"
            /\ UNCHANGED error
    /\ UNCHANGED << entry, sargs, swath_list, swathIdx, bbox, dem_path_resolved,
                    burst_range_tuple, groupIdx, results >>
    /\ UNCHANGED << demVars, layVars, worldVars, unionVars >>

\* lines 177-183: bbox = _union_bbox(bboxes) and the call of _ensure_dem
SceneUnion ==
    /\ entry = "scene" /\ pc = "union"
    /\ IF bboxes = None
       THEN Raise(E_UNBOUND) /\ UNCHANGED << bbox, dargs >>
       ELSE IF bboxes[1] = <<>>
       THEN Raise(E_EMPTYMIN) /\ UNCHANGED << bbox, dargs >>
       ELSE /\ bbox' = UnionBbox(bboxes[1])
            /\ dargs' = [ bbox_snwe |-> bbox', dem_dir |-> DemDirectory,
                          existing_dem |-> sargs.dem_path ]
            /\ pc' = "ensure_dem"
            /\ UNCHANGED error
    /\ UNCHANGED << entry, sargs, swath_list, swathIdx, readers, bboxes,
                    dem_path_resolved, burst_range_tuple, groupIdx, results >>
    /\ UNCHANGED << dret, layVars, worldVars, unionVars >>

---------------------------------------------------------------------------
(* _ensure_dem *)

\* return dem_path: to line 185 of the scene run, or to the caller
EnsureDemReturn(path) ==
    /\ dret' = path
    /\ UNCHANGED error
    /\ IF entry = "scene"
       THEN /\ dem_path_resolved' = path
            /\ burst_range_tuple' = IF sargs.burst_range # None
                                    THEN sargs.burst_range ELSE None
            /\ results' = <<>>
            /\ groupIdx' = 1
            /\ pc' = "group_loop"
       ELSE /\ pc' = "done"
            /\ UNCHANGED << dem_path_resolved, burst_range_tuple, results, groupIdx >>

\* lines 48-55: a DEM the caller supplies is checked for its sidecar and returned
EnsureDemCheck ==
    /\ pc = "ensure_dem"
    /\ IF dargs.existing_dem # None
       THEN LET dem_path == Abspath(dargs.existing_dem)
                xml_path == XmlPath(dem_path)
            IN  IF ~IsFile(files, xml_path)
                THEN /\ Raise(E_SIDECAR)
                     /\ UNCHANGED << dret, dem_path_resolved, burst_range_tuple,
                                     results, groupIdx >>
                ELSE EnsureDemReturn(dem_path)
       ELSE /\ pc' = "stitch"
            /\ UNCHANGED << error, dret, dem_path_resolved, burst_range_tuple,
                            results, groupIdx >>
    /\ UNCHANGED << entry, sargs, swath_list, swathIdx, readers, bboxes, bbox, dargs >>
    /\ UNCHANGED << layVars, worldVars, unionVars >>

\* lines 57-72: the stitcher is asked for the integer-degree box
EnsureDemStitch ==
    /\ pc = "stitch"
    /\ LET bbox_int == BboxInt(dargs.bbox_snwe)
           dem_name == DefaultName(bbox_int)
       IN  /\ stitchCalls' = Append(stitchCalls,
                  [ lat |-> <<bbox_int[1], bbox_int[2]>>,
                    lon |-> <<bbox_int[3], bbox_int[4]>>,
                    name |-> dem_name, downloadDir |-> dargs.dem_dir ])
           /\ \/ /\ Raise(E_STITCH)
                 /\ UNCHANGED << files, dret, dem_path_resolved, burst_range_tuple,
                                 results, groupIdx >>
              \/ /\ files' = files \cup {XmlPath(Join(dargs.dem_dir, dem_name))}
                 /\ EnsureDemReturn(Join(dargs.dem_dir, dem_name))
    /\ UNCHANGED << entry, sargs, swath_list, swathIdx, readers, bboxes, bbox, dargs >>
    /\ UNCHANGED << layVars, seen, demLoads, engineCalls, unionVars >>

---------------------------------------------------------------------------
(* the loop over readers.items(), lines 188-198 *)

SceneGroup ==
    /\ entry = "scene" /\ pc = "group_loop"
    /\ groupIdx <= Len(readers)
    /\ largs' = [ reader |-> readers[groupIdx][2],
                  dem_path |-> dem_path_resolved,
                  output_dir |-> Join(OutputDir, readers[groupIdx][1]),
                  burst_range |-> burst_range_tuple,
                  dem_interp |-> sargs.dem_interp ]
    /\ method' = <<>> /\ dem_image' = 0 /\ tasks' = <<>> /\ taskIdx' = 1
    /\ unit_results' = <<>> /\ lret' = None
    /\ pc' = "l_validate"
    /\ UNCHANGED << entry, error, sceneVars, demVars, worldVars, unionVars >>

SceneReturn ==
    /\ entry = "scene" /\ pc = "group_loop"
    /\ groupIdx > Len(readers)
    /\ pc' = "done"
    /\ UNCHANGED << entry, error, sceneVars, demVars, layVars, worldVars, unionVars >>

---------------------------------------------------------------------------
(* generate_shadow_layover *)

\* lines 195-197: method = dem_interp.upper() and its validation
LayoverValidate ==
    /\ pc = "l_validate"
    /\ LET m == Upper(largs.dem_interp)
       IN  /\ method' = m
           /\ IF m \notin VALID_DEM_METHODS
              THEN Raise(E_INTERP)
              ELSE pc' = "l_load" /\ UNCHANGED error
    /\ UNCHANGED << entry, sceneVars, demVars, largs, dem_image, tasks, taskIdx,
                    unit_results, lret, worldVars, unionVars >>

\* line 199, _load_dem: a new DEM image object is created and loaded from the sidecar
LayoverLoadDem ==
    /\ pc = "l_load"
    /\ LET xml_path == XmlPath(largs.dem_path)
       IN  IF ~IsFile(files, xml_path)
           THEN Raise(E_DEMXML) /\ UNCHANGED << dem_image, demLoads >>
           ELSE /\ dem_image' = NewHandle(demLoads)
                /\ demLoads' = Append(demLoads,
                                      [handle |-> NewHandle(demLoads), xml |-> xml_path])
                /\ pc' = "l_prepare"
                /\ UNCHANGED error
    /\ UNCHANGED << entry, sceneVars, demVars, largs, method, tasks, taskIdx,
                    unit_results, lret, files, seen, stitchCalls, engineCalls,
                    unionVars >>

\* line 200, _prepare_geometry_tasks
LayoverPrepare ==
    /\ pc = "l_prepare"
    /\ LET r == PrepareGeometryTasks(largs.reader, largs.burst_range)
       IN  IF r.error # ""
           THEN Raise(r.error) /\ UNCHANGED tasks
           ELSE tasks' = r.tasks /\ pc' = "l_task" /\ UNCHANGED error
    /\ UNCHANGED << entry, sceneVars, demVars, largs, method, dem_image, taskIdx,
                    unit_results, lret, worldVars, unionVars >>

\* lines 208-218, _run_topo_task: the engine is configured and run for one task;
\* it answers the extrema it found, or raises
LayoverRunTask ==
    /\ pc = "l_task"
    /\ taskIdx <= Len(tasks)
    /\ LET task == tasks[taskIdx]
           outputs == Outputs(largs.output_dir, task.tag)
       IN  /\ engineCalls' = Append(engineCalls,
                  [ task |-> task, dem |-> dem_image, method |-> method,
                    outputs |-> outputs ])
           /\ \/ /\ Raise(E_ENGINE)
                 /\ UNCHANGED << taskIdx, unit_results >>
              \/ \E b \in SampleBoxes :
                   /\ unit_results' = Append(unit_results,
                          [ label |-> task.label, mask_path |-> outputs["mask"],
                            bbox |-> b ])
                   /\ taskIdx' = taskIdx + 1
                   /\ UNCHANGED << pc, error >>
    /\ UNCHANGED << entry, sceneVars, demVars, largs, method, dem_image, tasks, lret,
                    files, seen, stitchCalls, demLoads, unionVars >>

\* lines 220-235: the result, handed to the caller (results[label] in a scene run)
LayoverFinish ==
    /\ pc = "l_task"
    /\ taskIdx > Len(tasks)
    /\ IF unit_results = <<>>
       THEN Raise(E_NOTASKS) /\ UNCHANGED << lret, results, groupIdx >>
       ELSE LET bbs == [i \in DOMAIN unit_results |-> unit_results[i].bbox]
                ret == [ output_directory |-> largs.output_dir,
                         units |-> unit_results,
                         overall_bbox |-> OverallBbox(bbs) ]
            IN  /\ lret' = ret
                /\ UNCHANGED error
                /\ IF entry = "scene"
                   THEN /\ results' = DictSet(results, readers[groupIdx][1], ret)
                        /\ groupIdx' = groupIdx + 1
                        /\ pc' = "group_loop"
                   ELSE /\ pc' = "done"
                        /\ UNCHANGED << results, groupIdx >>
    /\ UNCHANGED << entry, sargs, swath_list, swathIdx, readers, bboxes, bbox,
                    dem_path_resolved, burst_range_tuple >>
    /\ UNCHANGED << demVars, largs, method, dem_image, tasks, taskIdx, unit_results,
                    worldVars, unionVars >>

---------------------------------------------------------------------------
(* _union_bbox called on its own *)

UnionCalls == 8

\* the list of the k-th call, built from the three boxes and the earlier results:
\* [a,b], [b,a], [union(a,b),c], [b,c], [a,union(b,c)], [b,b], [a,b,c], [c,b,a]
UnionInput(k) ==
    CASE k = 1 -> << uargs.a, uargs.b >>
      [] k = 2 -> << uargs.b, uargs.a >>
      [] k = 3 -> << uout[1], uargs.c >>
      [] k = 4 -> << uargs.b, uargs.c >>
      [] k = 5 -> << uargs.a, uout[4] >>
      [] k = 6 -> << uargs.b, uargs.b >>
      [] k = 7 -> << uargs.a, uargs.b, uargs.c >>
      [] OTHER -> << uargs.c, uargs.b, uargs.a >>

UnionCall ==
    /\ entry = "union" /\ pc = "u_call"
    /\ uout' = Append(uout, UnionBbox(UnionInput(Len(uout) + 1)))
    /\ pc' = IF Len(uout') = UnionCalls THEN "done" ELSE pc
    /\ UNCHANGED << entry, error, uargs, sceneVars, demVars, layVars, worldVars >>

---------------------------------------------------------------------------
(* Specifications *)

LayoverNext ==
    \/ LayoverValidate
    \/ LayoverLoadDem
    \/ LayoverPrepare
    \/ LayoverRunTask
    \/ LayoverFinish

DemNext ==
    \/ EnsureDemCheck
    \/ EnsureDemStitch

Next ==
    \/ SceneStart
    \/ SceneCreateSwathReader
    \/ SceneSwathsDone
    \/ SceneCreateFrameReader
    \/ SceneUnion
    \/ EnsureDemCheck
    \/ EnsureDemStitch
    \/ SceneGroup
    \/ SceneReturn
    \/ LayoverValidate
    \/ LayoverLoadDem
    \/ LayoverPrepare
    \/ LayoverRunTask
    \/ LayoverFinish

\* a run of generate_scene_shadow_masks
Spec == Init /\ [][Next]_vars

\* a run of generate_shadow_layover
SpecLayover == InitLayover /\ [][LayoverNext]_vars

\* a run of _ensure_dem
SpecDem == InitDem /\ [][DemNext]_vars

\* runs of _union_bbox
SpecUnion == InitUnion /\ [][UnionCall]_vars

---------------------------------------------------------------------------
(* Properties *)

Terminal == pc \in {"done", "failed"}

\* f"{n:02d}" for 0 <= n <= 99, digit by digit
TwoDigits(n) == << DigitChar[(n \div 10) + 1], DigitChar[(n % 10) + 1] >>

\* s is name up to the case of its letters
SameUpToCase(s, name) ==
    /\ Len(s) = Len(name)
    /\ \A i \in DOMAIN s :
          \/ s[i] = name[i]
          \/ \E k \in DOMAIN LowerCase : LowerCase[k] = s[i] /\ UpperCase[k] = name[i]

SetMin(S) == CHOOSE x \in S : \A y \in S : x <= y

SetMax(S) == CHOOSE x \in S : \A y \in S : x >= y

\* component-wise min/max of a non-empty set of boxes
MinMaxBox(S) ==
    << SetMin({b[1] : b \in S}), SetMax({b[2] : b \in S}),
       SetMin({b[3] : b \in S}), SetMax({b[4] : b \in S}) >>

Range(seq) == {seq[i] : i \in DOMAIN seq}

\* the directory an engine invocation writes its mask into
CallDir(c) == SubSeq(c.outputs["mask"], 1, Len(c.outputs["mask"]) - 1)

\* burst_range does not fit a reader of n bursts
RangeInvalid(br, n) == br # None /\ (br[1] < 1 \/ br[2] < br[1] \/ br[2] > n)

\* generate_shadow_layover got as far as _prepare_geometry_tasks
ExtractionRan ==
    \/ pc \in {"l_task", "done"}
    \/ pc = "failed" /\ error \notin {E_INTERP, E_DEMXML}

\* C1 (SpecDem): the integer-degree box _ensure_dem asks the stitcher for encloses
\* the box it was given: south' <= south, north <= north', west' <= west,
\* east <= east'.
C1_ExpansionRoundsOutward ==
    \A i \in DOMAIN stitchCalls :
        LET r == stitchCalls[i]
            b == dargs.bbox_snwe
        IN  /\ r.lat[1] * Scale <= b[1]
            /\ b[2] <= r.lat[2] * Scale
            /\ r.lon[1] * Scale <= b[3]
            /\ b[4] <= r.lon[2] * Scale

\* C2 (SpecLayover): for a reader with N >= 1 bursts, burst_range None yields the N
\* tasks tagged 01..N in burst order; a range (start, stop) raises the invalid-range
\* error exactly when start < 1, stop < start or stop > N, and otherwise yields the
\* stop - start + 1 tasks tagged start..stop, built from the bursts at those positions.
C2_TaskExtraction ==
    (entry = "layover" /\ ExtractionRan /\ largs.reader.hasProduct
        /\ Len(largs.reader.bursts) >= 1) =>
        LET bursts == largs.reader.bursts
            N == Len(bursts)
            br == largs.burst_range
            start == IF br = None THEN 1 ELSE br[1]
            stop == IF br = None THEN N ELSE br[2]
            invalid == br # None /\ (start < 1 \/ stop < start \/ stop > N)
        IN  /\ invalid <=> (pc = "failed" /\ error = E_RANGE)
            /\ ~invalid =>
                  /\ Len(tasks) = stop - start + 1
                  /\ \A i \in DOMAIN tasks :
                        /\ tasks[i].tag = TwoDigits(start + i - 1)
                        /\ tasks[i].src = bursts[start + i - 1]

\* C2 witness: the range (2, 3) of a 3-burst reader gave the two tasks 02 and 03
C2_Witness ==
    /\ entry = "layover" /\ pc = "done"
    /\ Len(largs.reader.bursts) = 3 /\ largs.burst_range = <<2, 3>>
    /\ Len(tasks) = 2 /\ tasks[1].tag = <<"0", "2">> /\ tasks[2].tag = <<"0", "3">>

\* C4 as claimed (SpecLayover): a reader whose burst sequence is empty ends in the
\* empty-result error.
C4_EmptyBurstsRaiseEmptyResult ==
    (entry = "layover" /\ Terminal /\ ExtractionRan
        /\ largs.reader.hasProduct /\ largs.reader.bursts = <<>>) =>
        (pc = "failed" /\ error = E_NOTASKS)

\* C4 as amended (SpecLayover): every returned result has at least one unit; a
\* reader whose burst sequence is empty is taken for one without bursts, so its frame
\* is the one task if it has a frame, and otherwise the unsupported-reader error is
\* raised; a range selecting no burst raises the invalid-range error; the
\* empty-result error is raised in neither case.
C4_NeverEmptyUnits ==
    entry = "layover" =>
        /\ pc = "done" => (lret # None /\ Len(lret.units) >= 1)
        /\ (ExtractionRan /\ largs.reader.hasProduct /\ largs.reader.bursts = <<>>) =>
              IF largs.reader.hasFrame
              THEN tasks = <<FrameTask>> /\ error \notin {E_NOTASKS, E_READER, E_RANGE}
              ELSE pc = "failed" /\ error = E_READER
        /\ (ExtractionRan /\ largs.reader.hasProduct /\ largs.reader.bursts # <<>>
              /\ largs.burst_range # None
              /\ largs.burst_range[2] < largs.burst_range[1]) =>
              (pc = "failed" /\ error = E_RANGE)

\* C4 witness: an empty burst sequence and no frame ended in the unsupported-reader
\* error
C4_Witness ==
    /\ entry = "layover" /\ pc = "failed" /\ error = E_READER
    /\ largs.reader.hasProduct /\ largs.reader.bursts = <<>>

\* C5 (SpecLayover): a dem_interp that is one of the six method names up to letter
\* case is accepted and every engine invocation is configured with the upper-case
\* name; any other dem_interp raises the unsupported-interpolation error before the
\* DEM is loaded, before any task is extracted and before any engine invocation.
C5_InterpNormalised ==
    (entry = "layover" /\ pc # "l_validate") =>
        IF \E name \in VALID_DEM_METHODS : SameUpToCase(largs.dem_interp, name)
        THEN /\ error # E_INTERP
             /\ \A i \in DOMAIN engineCalls :
                   /\ engineCalls[i].method \in VALID_DEM_METHODS
                   /\ SameUpToCase(largs.dem_interp, engineCalls[i].method)
        ELSE /\ pc = "failed" /\ error = E_INTERP
             /\ demLoads = <<>> /\ tasks = <<>> /\ engineCalls = <<>>

\* C5 witness: "BiQuintic" ran the engine with BIQUINTIC
C5_Witness ==
    /\ entry = "layover" /\ pc = "done"
    /\ largs.dem_interp = <<"B", "i", "Q", "u", "i", "n", "t", "i", "c">>
    /\ engineCalls # <<>> /\ engineCalls[1].method = STR_BIQUINTIC

\* C6 (SpecUnion): union(a, b) = union(b, a), union(union(a, b), c) =
\* union(a, union(b, c)), union(b, b) = b, and the union of the list [a, b, c] is
\* that of [c, b, a] and of the nested unions.
C6_UnionAlgebra ==
    (entry = "union" /\ pc = "done") =>
        /\ uout[1] = uout[2]
        /\ uout[3] = uout[5]
        /\ uout[6] = uargs.b
        /\ uout[7] = uout[8]
        /\ uout[7] = uout[3]

\* C6 witness: two boxes neither of which holds the other were united
C6_Witness ==
    /\ entry = "union" /\ pc = "done"
    /\ uout[1] # uargs.a /\ uout[1] # uargs.b /\ uout[3] # uout[1]

\* C3 as claimed (Spec): a scene run given a DEM path whose descriptor is absent ends
\* in the missing-descriptor error, with neither the stitcher nor the engine invoked.
C3_MissingSidecarIsTheError ==
    (entry = "scene" /\ Terminal /\ sargs.dem_path = DemMissing) =>
        /\ pc = "failed" /\ error = E_SIDECAR
        /\ stitchCalls = <<>> /\ engineCalls = <<>>

\* C3 as amended (Spec): such a run never returns and never invokes the stitcher, loads
\* the DEM or invokes the engine; it ends in the missing-descriptor error whenever the
\* readers were built and their boxes united, and otherwise in the error that stopped
\* the building of the readers or the union.
C3_MissingSidecarFails ==
    (entry = "scene" /\ sargs.dem_path = DemMissing) =>
        /\ pc # "done"
        /\ stitchCalls = <<>> /\ demLoads = <<>> /\ engineCalls = <<>>
        /\ pc = "failed" =>
              IF bbox # None
              THEN error = E_SIDECAR
              ELSE error \in {E_PRODUCT, E_SENSOR, E_PARSE, E_UNBOUND, E_EMPTYMIN}

\* C3 witness: the run ended in the missing-descriptor error
C3_Witness ==
    /\ entry = "scene" /\ sargs.dem_path = DemMissing
    /\ pc = "failed" /\ error = E_SIDECAR /\ Len(readers) >= 2

\* C7 as claimed (Spec): a finished run over several swaths holds a scene-level
\* overall_bbox, the component-wise min/max over the boxes of all the swaths.
C7_SceneOverallBbox ==
    (entry = "scene" /\ pc = "done" /\ Len(results) >= 2) =>
        \E i \in DOMAIN results :
            results[i][2].overall_bbox =
                MinMaxBox(UNION { { results[j][2].units[k].bbox :
                                      k \in DOMAIN results[j][2].units } :
                                  j \in DOMAIN results })

\* C7 as amended (Spec): the run returns one result per swath, whose overall_bbox is the
\* component-wise min/max over the boxes of that swath's own units; the min/max across
\* the swaths is taken only of the product boxes of the readers, for the box handed to
\* _ensure_dem.
C7_PerSwathOverallBbox ==
    entry = "scene" =>
        /\ bbox # None => bbox = MinMaxBox(Range(bboxes[1]))
        /\ dargs # NoArgs => dargs.bbox_snwe = bbox
        /\ \A i \in DOMAIN results :
              LET r == results[i][2]
              IN  /\ r.units # <<>>
                  /\ r.overall_bbox =
                         MinMaxBox({ r.units[k].bbox : k \in DOMAIN r.units })
                  /\ \A k \in DOMAIN r.units :
                        SubSeq(r.units[k].mask_path, 1, Len(r.units[k].mask_path) - 1)
                            = Join(OutputDir, results[i][1])

\* C7 witness: three swaths finished, two of them with different overall boxes
C7_Witness ==
    /\ entry = "scene" /\ pc = "done" /\ Len(results) = 3
    /\ results[1][2].overall_bbox # results[2][2].overall_bbox
    /\ Len(results[3][2].units) >= 2

\* C8 as claimed (Spec): a run that ends in a validation error has invoked neither the
\* stitcher nor the engine.
C8_ValidationBeforeAnyWork ==
    (entry = "scene" /\ pc = "failed"
        /\ error \in {E_RANGE, E_INTERP, E_SENSOR, E_SIDECAR, E_DEMXML}) =>
        (stitchCalls = <<>> /\ engineCalls = <<>>)

\* C8 as amended (Spec): a run returns only if no validation failed (the method is
\* one of the six names up to case, the range fits every burst reader, a supplied
\* DEM has its descriptor).  The unsupported-sensor and missing-descriptor errors come
\* before the stitcher, any DEM load and any engine invocation; the
\* unsupported-interpolation error comes after DEM provisioning, before any DEM
\* load, engine invocation or result; the invalid-range error comes before any
\* engine invocation of its own unit-group, every earlier invocation being of a
\* unit-group that has returned its result.
C8_ValidationAborts ==
    entry = "scene" =>
        /\ pc = "done" =>
              /\ \E name \in VALID_DEM_METHODS : SameUpToCase(sargs.dem_interp, name)
              /\ \A i \in DOMAIN readers :
                    readers[i][2].hasProduct =>
                        ~RangeInvalid(sargs.burst_range, Len(readers[i][2].bursts))
              /\ sargs.dem_path # DemMissing
        /\ (pc = "failed" /\ error \in {E_SENSOR, E_SIDECAR}) =>
              (stitchCalls = <<>> /\ demLoads = <<>> /\ engineCalls = <<>>)
        /\ (pc = "failed" /\ error = E_INTERP) =>
              /\ dem_path_resolved # None
              /\ demLoads = <<>> /\ engineCalls = <<>> /\ results = <<>>
        /\ (pc = "failed" /\ error = E_RANGE) =>
              /\ RangeInvalid(sargs.burst_range, Len(largs.reader.bursts))
              /\ \A i \in DOMAIN engineCalls :
                    /\ CallDir(engineCalls[i]) # largs.output_dir
                    /\ \E j \in DOMAIN results :
                          results[j][2].output_directory = CallDir(engineCalls[i])

\* C8 witness: the range fitted the first swath, whose tasks the engine ran, and not
\* the second
C8_Witness ==
    /\ entry = "scene" /\ pc = "failed" /\ error = E_RANGE
    /\ Len(results) = 1 /\ Len(engineCalls) = 2

\* C9 as claimed (Spec): one DEM handle for the whole run, handed to every engine
\* invocation.
C9_SingleDemHandle ==
    entry = "scene" =>
        /\ Len(demLoads) <= 1
        /\ \A i, j \in DOMAIN engineCalls : engineCalls[i].dem = engineCalls[j].dem

\* C9 as amended (Spec): the DEM is provisioned once, before the first load and the
\* first engine invocation (at most one stitch request; none for a supplied DEM); a
\* handle is created once per unit-group, from the descriptor of the provisioned DEM,
\* and two engine invocations receive the same handle exactly when they are of the
\* same unit-group.
C9_DemHandlePerGroup ==
    entry = "scene" =>
        /\ Len(stitchCalls) <= 1
        /\ (demLoads # <<>> \/ engineCalls # <<>>) =>
              /\ dem_path_resolved # None
              /\ Len(stitchCalls) = IF sargs.dem_path = None THEN 1 ELSE 0
        /\ \A i \in DOMAIN demLoads :
              /\ demLoads[i].xml = XmlPath(dem_path_resolved)
              /\ \A j \in DOMAIN demLoads : i # j => demLoads[i].handle # demLoads[j].handle
        /\ Len(demLoads) \in {Len(results), Len(results) + 1}
        /\ \A i \in DOMAIN engineCalls :
              /\ \E l \in DOMAIN demLoads : demLoads[l].handle = engineCalls[i].dem
              /\ \A j \in DOMAIN engineCalls :
                    (CallDir(engineCalls[i]) = CallDir(engineCalls[j]))
                        <=> (engineCalls[i].dem = engineCalls[j].dem)

\* C9 witness: a finished run of three unit-groups and three handles
C9_Witness ==
    /\ entry = "scene" /\ pc = "done"
    /\ Len(demLoads) = 3 /\ Len(engineCalls) >= 4

\* C10 (Spec): within a run no two engine invocations are given the same output path:
\* the paths handed out are as many as six times the invocations (the six paths of an
\* invocation differ, the paths of two invocations differ), and an
\* invocation writes into <output_dir>/<label> of a reader, the labels being distinct.
C10_OutputPathsDistinct ==
    entry = "scene" =>
        /\ Cardinality({ engineCalls[i].outputs[k] :
                            i \in DOMAIN engineCalls, k \in Range(OutputKeys) })
              = Len(OutputKeys) * Len(engineCalls)
        /\ \A i \in DOMAIN engineCalls :
              \E g \in DOMAIN readers :
                  \A k \in Range(OutputKeys) :
                      LET path == engineCalls[i].outputs[k]
                      IN  /\ SubSeq(path, 1, Len(path) - 1) = Append(OutputDir, readers[g][1])
                          /\ path[Len(path)] =
                                <<OutputPrefix[k], "_">> \o engineCalls[i].task.tag \o <<".rdr">>
        /\ \A g, h \in DOMAIN readers : g # h => readers[g][1] # readers[h][1]

\* C10 witness: swath 1 was requested twice and its two bursts were run
C10_Witness ==
    /\ entry = "scene" /\ pc = "done"
    /\ sargs.swaths = Some(<<1, 1>>) /\ Len(engineCalls) = 2

=============================================================================
